---- MODULE Spec2Model ----
(***************************************************************************)
(* Signer HTTP client of manta-pay (src/manta-pay/src/signer/client/      *)
(* http.rs): a Client owns a transport bound to a base URL and an          *)
(* optional network selector.  Every Connection method boxes the future of *)
(* post_request(command, request); the body of that future wraps the       *)
(* request with the selector (panicking if there is none), hands the       *)
(* Message to the transport's post, awaits it and returns its result.      *)
(*                                                                         *)
(* The future returned by a Connection method borrows the client for its   *)
(* whole life (elided lifetime of &mut self), so while a future is alive   *)
(* no other method of the client can be called: at most one future exists  *)
(* and set_network runs only between futures.  The body of an async fn     *)
(* runs when the future is polled, not when it is created.                 *)
(***************************************************************************)
EXTENDS Integers, Sequences, FiniteSets, TLC

VARIABLES
    client,     \* the Client value: NoClient, or its fields base and network
    future,     \* the boxed post_request future that borrows the client
    sent,       \* transport log: every (path, body) handed to base.post
    outcome,    \* the last finished call as its caller saw it
    lastSet     \* history: argument of the most recent set_network

vars == <<client, future, sent, outcome, lastSet>>

----------------------------------------------------------------------------
(* Bounds *)

\* Outbound transport calls after which no further operation is started.
MaxCalls == 2

\* Distinct payload values per request type.
MaxRequest == 2

----------------------------------------------------------------------------
(* Values exchanged with the client *)

\* Option::None
None == "None"

\* signer::client::network::Network, with the selectors the specification names
Network == {"MainNet", "TestNet"}

\* Option<Network>
OptionNetwork == Network \cup {None}

\* Arguments of Client::new that parse as a URL, and ones that do not
WellFormedUrls == {"http://localhost:29987/"}
MalformedUrls == {"localhost:29987//"}
Urls == WellFormedUrls \cup MalformedUrls

\* A request value of the named type
Request(type) == [type : {type}, id : 1..MaxRequest]

\* GetRequest::Get, the no-payload marker
GetRequest_Get == [type |-> "GetRequest", id |-> 0]

\* A two-level tagged value: Result, Option and the decoded payloads
Tagged(tag, value) == [tag |-> tag, value |-> value]
Ok(value) == Tagged("Ok", value)
Err(error) == Tagged("Err", error)
Unit == Tagged("()", "()")

\* reqwest::Error values the transport can report
TransportErrors ==
    {Tagged("reqwest::Error", e) :
        e \in {"connect", "status", "decode"}}

\* The values of the response type R each Connection method decodes to
ResponseValues(op) ==
    CASE op \in {"sync", "sbt_sync", "initial_sync"} ->
            {Ok("SyncResponse"), Err("SyncError")}
      [] op = "sign" -> {Ok("SignResponse"), Err("SignError")}
      [] op = "address" -> {Tagged("Some", "Address"), Tagged("None", "-")}
      [] op = "transaction_data" ->
            {Tagged("TransactionDataResponse", "data")}
      [] op = "identity_proof" -> {Tagged("IdentityResponse", "proof")}
      [] op = "sign_with_transaction_data" ->
            {Ok("SignResponseWithTransactionData"), Err("SignError")}
      [] op = "transfer_parameters" -> {Tagged("Parameters", "parameters")}

----------------------------------------------------------------------------
(* State of the client, its future and its caller *)

NoClient == [tag |-> "NoClient"]
NoFuture == [state |-> "none"]
NoReply == Tagged("-", Tagged("-", "-"))
NoRequest == [type |-> "-", id |-> 0]

\* The argument of Client::new as an outcome records it
UrlArgument(server_url) == [type |-> "IntoUrl", id |-> 0, url |-> server_url]

\* What the caller of `op` observed when the call finished: `status` is
\* "returned", "panicked" (missing-network fault) or "dropped" (future
\* cancelled); `reply` is what the transport produced, `result` what the
\* call returned; `posts` are the transport calls issued during the call.
Outcome(op, status, reply, result, request, selector, posts) ==
    [op |-> op, status |-> status, reply |-> reply, result |-> result,
     request |-> request, selector |-> selector, posts |-> posts]

NoOutcome == Outcome("-", "none", NoReply, NoReply, NoRequest, None, <<>>)

\* The transport calls issued since the future `f` was created
PostsSince(f) == SubSeq(sent, f.sentBefore + 1, Len(sent))

----------------------------------------------------------------------------
(* Transport: manta_util::http::reqwest::KnownUrlClient *)

\* KnownUrlClient::new: parse the URL, no network activity
KnownUrlClient_new(server_url) ==
    IF server_url \in WellFormedUrls
    THEN Ok([server_url |-> server_url])
    ELSE Err(Tagged("reqwest::Error", "builder"))

\* KnownUrlClient::post, request side: one POST of `body` to path `command`
KnownUrlClient_post(wire, command, body) ==
    Append(wire, [path |-> command, body |-> body])

\* KnownUrlClient::post, response side: a decoded R or a reqwest::Error
TransportResults(op) ==
    {Ok(v) : v \in ResponseValues(op)} \cup {Err(e) : e \in TransportErrors}

----------------------------------------------------------------------------
(* Client *)

Init ==
    /\ client = NoClient
    /\ future = NoFuture
    /\ sent = <<>>
    /\ outcome = NoOutcome
    /\ lastSet = None

\* Variant of new: the client starts on a default network
new_default_network(server_url) ==
    /\ client = NoClient
    /\ future = NoFuture
    /\ LET base == KnownUrlClient_new(server_url) IN
        IF base.tag = "Ok"
        THEN /\ client' = [tag |-> "Client", base |-> base.value,
                           network |-> "MainNet"]
             /\ outcome' = Outcome("new", "returned", NoReply,
                                   Ok(Tagged("Client", server_url)),
                                   UrlArgument(server_url), None, <<>>)
        ELSE /\ client' = client
             /\ outcome' = Outcome("new", "returned", NoReply, base,
                                   UrlArgument(server_url), None, <<>>)
    /\ lastSet' = None
    /\ UNCHANGED <<future, sent>>

\* Client::new
new(server_url) ==
    /\ client = NoClient
    /\ future = NoFuture
    /\ LET base == KnownUrlClient_new(server_url) IN
        IF base.tag = "Ok"
        THEN /\ client' = [tag |-> "Client", base |-> base.value,
                           network |-> None]
             /\ outcome' = Outcome("new", "returned", NoReply,
                                   Ok(Tagged("Client", server_url)),
                                   UrlArgument(server_url), None, <<>>)
        ELSE /\ client' = client
             /\ outcome' = Outcome("new", "returned", NoReply, base,
                                   UrlArgument(server_url), None, <<>>)
    /\ lastSet' = None
    /\ UNCHANGED <<future, sent>>

\* Variant of set_network: envelopes share the selector instead of copying
\* it, so the envelopes already handed to the transport are retagged
set_network_retags(network) ==
    /\ client # NoClient
    /\ future = NoFuture
    /\ client' = [client EXCEPT !.network = network]
    /\ lastSet' = network
    /\ outcome' = Outcome("set_network", "returned", NoReply, Ok(Unit),
                          NoRequest, network, <<>>)
    /\ sent' = [i \in 1..Len(sent) |->
                    [sent[i] EXCEPT !.body.network = network]]
    /\ UNCHANGED future

\* Client::set_network
set_network(network) ==
    /\ client # NoClient
    /\ future = NoFuture
    /\ client' = [client EXCEPT !.network = network]
    /\ lastSet' = network
    /\ outcome' = Outcome("set_network", "returned", NoReply, Ok(Unit),
                          NoRequest, network, <<>>)
    /\ UNCHANGED <<future, sent>>

\* Variant of wrap_request: the `expect` is missing
wrap_request_never_panics(self) == FALSE

\* Client::wrap_request, the `expect`: does wrapping panic?
wrap_request_panics(self) == self.network = None

\* Variant of wrap_request: a fixed selector instead of the configured one
wrap_request_default_network(self, request) ==
    [network |-> "MainNet", message |-> request]

\* Variant of wrap_request: the request goes out without an envelope
wrap_request_bare(self, request) == request

\* Client::wrap_request, the Message it builds
wrap_request(self, request) ==
    [network |-> self.network, message |-> request]

\* Client::post_request as called by Connection method `op`: the value of
\* the future it returns, of whose body nothing has run yet.
post_request(op, command, request) ==
    [state |-> "created", op |-> op, command |-> command,
     request |-> request, sentBefore |-> Len(sent)]

\* Variant of the first poll: the no-payload marker skips wrap_request
post_request_poll_bare_get ==
    /\ future.state = "created"
    /\ IF future.request = GetRequest_Get
       THEN /\ sent' = KnownUrlClient_post(sent, future.command,
                                           future.request)
            /\ future' = [future EXCEPT !.state = "awaiting"]
            /\ UNCHANGED outcome
       ELSE IF wrap_request_panics(client)
       THEN /\ future' = NoFuture
            /\ outcome' = Outcome(future.op, "panicked", NoReply, NoReply,
                                  future.request, client.network,
                                  PostsSince(future))
            /\ UNCHANGED sent
       ELSE /\ sent' = KnownUrlClient_post(sent, future.command,
                                           wrap_request(client, future.request))
            /\ future' = [future EXCEPT !.state = "awaiting"]
            /\ UNCHANGED outcome
    /\ UNCHANGED <<client, lastSet>>

\* First poll of the post_request future: wrap, then start base.post
post_request_poll ==
    /\ future.state = "created"
    /\ IF wrap_request_panics(client)
       THEN /\ future' = NoFuture
            /\ outcome' = Outcome(future.op, "panicked", NoReply, NoReply,
                                  future.request, client.network,
                                  PostsSince(future))
            /\ UNCHANGED sent
       ELSE /\ sent' = KnownUrlClient_post(sent, future.command,
                                           wrap_request(client, future.request))
            /\ future' = [future EXCEPT !.state = "awaiting"]
            /\ UNCHANGED outcome
    /\ UNCHANGED <<client, lastSet>>

\* Variant of post_request: a transport error becomes an empty success
post_request_output_swallows(r) ==
    IF r.tag = "Err" THEN Ok(Tagged("None", "-")) ELSE r

\* Variant of post_request: an embedded application error is reported on
\* the transport-error channel
post_request_output_flattens(r) ==
    IF r.tag = "Ok" /\ r.value.tag = "Err"
    THEN Err(Tagged("reqwest::Error", r.value.value))
    ELSE r

\* What post_request returns for the reply `r` of the awaited base.post
post_request_output(r) == r

\* The awaited base.post completes and post_request returns
post_request_ready ==
    /\ future.state = "awaiting"
    /\ \E r \in TransportResults(future.op) :
        outcome' = Outcome(future.op, "returned", r, post_request_output(r),
                           future.request, client.network, PostsSince(future))
    /\ future' = NoFuture
    /\ UNCHANGED <<client, sent, lastSet>>

\* Variant of the drop: cancelling clears the selector
drop_future_clears_network ==
    /\ future.state \in {"created", "awaiting"}
    /\ outcome' = Outcome(future.op, "dropped", NoReply, NoReply,
                          future.request, client.network, PostsSince(future))
    /\ future' = NoFuture
    /\ client' = [client EXCEPT !.network = None]
    /\ UNCHANGED <<sent, lastSet>>

\* The caller drops the boxed future before it completed
drop_future ==
    /\ future.state \in {"created", "awaiting"}
    /\ outcome' = Outcome(future.op, "dropped", NoReply, NoReply,
                          future.request, client.network, PostsSince(future))
    /\ future' = NoFuture
    /\ UNCHANGED <<client, sent, lastSet>>

----------------------------------------------------------------------------
(* impl signer::Connection<Config> for Client *)

\* A Connection method can be called: the client exists and no earlier
\* future still borrows it.
Callable ==
    /\ client # NoClient
    /\ future = NoFuture
    /\ Len(sent) < MaxCalls

sync ==
    /\ Callable
    /\ \E request \in Request("SyncRequest") :
        future' = post_request("sync", "sync", request)
    /\ outcome' = NoOutcome
    /\ UNCHANGED <<client, sent, lastSet>>

sbt_sync ==
    /\ Callable
    /\ \E request \in Request("SyncRequest") :
        future' = post_request("sbt_sync", "sbt_sync", request)
    /\ outcome' = NoOutcome
    /\ UNCHANGED <<client, sent, lastSet>>

initial_sync ==
    /\ Callable
    /\ \E request \in Request("InitialSyncRequest") :
        future' = post_request("initial_sync", "initial_sync", request)
    /\ outcome' = NoOutcome
    /\ UNCHANGED <<client, sent, lastSet>>

sign ==
    /\ Callable
    /\ \E request \in Request("SignRequest") :
        future' = post_request("sign", "sign", request)
    /\ outcome' = NoOutcome
    /\ UNCHANGED <<client, sent, lastSet>>

address ==
    /\ Callable
    /\ future' = post_request("address", "address", GetRequest_Get)
    /\ outcome' = NoOutcome
    /\ UNCHANGED <<client, sent, lastSet>>

transaction_data ==
    /\ Callable
    /\ \E request \in Request("TransactionDataRequest") :
        future' = post_request("transaction_data", "transaction_data", request)
    /\ outcome' = NoOutcome
    /\ UNCHANGED <<client, sent, lastSet>>

\* Variant of identity_proof: the path is the method's own name
identity_proof_own_name ==
    /\ Callable
    /\ \E request \in Request("IdentityRequest") :
        future' = post_request("identity_proof", "identity_proof", request)
    /\ outcome' = NoOutcome
    /\ UNCHANGED <<client, sent, lastSet>>

identity_proof ==
    /\ Callable
    /\ \E request \in Request("IdentityRequest") :
        future' = post_request("identity_proof", "identity", request)
    /\ outcome' = NoOutcome
    /\ UNCHANGED <<client, sent, lastSet>>

sign_with_transaction_data ==
    /\ Callable
    /\ \E request \in Request("SignRequest") :
        future' = post_request("sign_with_transaction_data",
                               "sign_with_transaction_data", request)
    /\ outcome' = NoOutcome
    /\ UNCHANGED <<client, sent, lastSet>>

transfer_parameters ==
    /\ Callable
    /\ future' = post_request("transfer_parameters", "transfer_parameters",
                              GetRequest_Get)
    /\ outcome' = NoOutcome
    /\ UNCHANGED <<client, sent, lastSet>>

----------------------------------------------------------------------------

Next ==
    \/ \E server_url \in Urls : new(server_url)
    \/ \E network \in OptionNetwork : set_network(network)
    \/ sync
    \/ sbt_sync
    \/ initial_sync
    \/ sign
    \/ address
    \/ transaction_data
    \/ identity_proof
    \/ sign_with_transaction_data
    \/ transfer_parameters
    \/ post_request_poll
    \/ post_request_ready
    \/ drop_future

Spec == Init /\ [][Next]_vars

----------------------------------------------------------------------------
(* Properties *)

\* The Connection methods the specification lists as needing a selector
SelectorOps ==
    {"sync", "sbt_sync", "initial_sync", "sign", "transaction_data",
     "identity_proof", "sign_with_transaction_data"}

\* The two methods that send the no-payload marker
GetOps == {"address", "transfer_parameters"}

ConnectionOps == SelectorOps \cup GetOps

\* The methods whose response embeds an application-level result
ResultOps ==
    {"sync", "sbt_sync", "initial_sync", "sign", "sign_with_transaction_data"}

\* The command name the specification's table gives each method
CommandName(op) == IF op = "identity_proof" THEN "identity" ELSE op

\* A body that is a network envelope
IsEnvelope(body) == DOMAIN body = {"network", "message"}

\* The outcome of a call whose future was polled to its end
Finished == outcome.status \in {"returned", "panicked"}

\* C1: with no selector configured, a selector-requiring method that runs
\* ends in the missing-network fault having issued no transport call, and
\* nothing the transport ever received is unwrapped or carries no selector.
C1_MissingNetworkAborts ==
    /\ (outcome.op \in SelectorOps /\ outcome.selector = None /\ Finished)
        => (outcome.status = "panicked" /\ outcome.posts = <<>>)
    /\ (future.state = "awaiting" /\ future.op \in SelectorOps)
        => client.network \in Network
    /\ \A i \in 1..Len(sent) :
        sent[i].path \in {CommandName(op) : op \in SelectorOps}
            => (IsEnvelope(sent[i].body) /\ sent[i].body.network \in Network)

C1_Witness ==
    /\ outcome.op = "sign"
    /\ outcome.status = "panicked"
    /\ lastSet = None
    /\ Len(sent) = 1

\* C2: with selector S configured, the body a selector-requiring method
\* hands to the transport is the envelope of S and the unmodified request.
C2_EnvelopeCarriesSelectorAndRequest ==
    /\ (outcome.op \in SelectorOps /\ outcome.status = "returned")
        => /\ outcome.selector \in Network
           /\ Len(outcome.posts) = 1
           /\ outcome.posts[1].body =
                [network |-> outcome.selector, message |-> outcome.request]
    /\ (future.state = "awaiting" /\ future.op \in SelectorOps)
        => sent[Len(sent)].body =
                [network |-> lastSet, message |-> future.request]

C2_Witness ==
    /\ outcome.op = "sync"
    /\ outcome.status = "returned"
    /\ outcome.selector = "TestNet"
    /\ outcome.request.id = MaxRequest
    /\ outcome.posts[1].body.message = outcome.request

\* C3 as stated: with a selector configured, address and
\* transfer_parameters send the bare marker while every other method sends
\* an envelope.
C3_GetMarkersSentBare ==
    (outcome.op \in ConnectionOps /\ outcome.status = "returned"
        /\ outcome.selector \in Network)
    => /\ Len(outcome.posts) = 1
       /\ IF outcome.op \in GetOps
          THEN outcome.posts[1].body = GetRequest_Get
          ELSE IsEnvelope(outcome.posts[1].body)

\* C3 amended: with a selector configured, address and transfer_parameters
\* too send an envelope: it carries the selector and the marker; every other
\* method's body is an envelope as well.
C3_GetMarkersAreWrapped ==
    (outcome.op \in ConnectionOps /\ outcome.status = "returned"
        /\ outcome.selector \in Network)
    => /\ Len(outcome.posts) = 1
       /\ IsEnvelope(outcome.posts[1].body)
       /\ outcome.op \in GetOps
            => outcome.posts[1].body =
                [network |-> outcome.selector, message |-> GetRequest_Get]

C3_Witness ==
    /\ outcome.op = "transfer_parameters"
    /\ outcome.status = "returned"
    /\ outcome.selector = "MainNet"
    /\ outcome.posts[1].path = "transfer_parameters"

\* C4 as stated: with no selector configured, address and
\* transfer_parameters do not fault; they post the bare marker to their
\* path and return the transport's result.
C4_GetOpsNeverFault ==
    (outcome.op \in GetOps /\ outcome.selector = None /\ Finished)
    => /\ outcome.status = "returned"
       /\ outcome.posts =
            <<[path |-> CommandName(outcome.op), body |-> GetRequest_Get]>>

\* C4 amended: with no selector configured, address and
\* transfer_parameters that run end in the missing-network fault as well,
\* and issue no transport call.
C4_GetOpsAlsoAbort ==
    /\ (outcome.op \in GetOps /\ outcome.selector = None /\ Finished)
        => (outcome.status = "panicked" /\ outcome.posts = <<>>)
    /\ (future.state = "awaiting" /\ future.op \in GetOps)
        => client.network \in Network

C4_Witness ==
    /\ outcome.op = "address"
    /\ outcome.status = "panicked"
    /\ outcome.selector = None
    /\ outcome.posts = <<>>

\* C5: no step, set_network included, changes a body already handed to the
\* transport; a wrap made after set_network(x) carries x, and faults when x
\* is absent.
C5_SetNetworkAffectsOnlyLaterWraps ==
    [][/\ Len(sent') >= Len(sent)
       /\ \A i \in 1..Len(sent) : sent'[i] = sent[i]
       /\ Len(sent') > Len(sent)
            => /\ lastSet \in Network
               /\ sent'[Len(sent')].body.network = lastSet
       /\ (future.state = "created" /\ future' = NoFuture
                /\ outcome'.status # "dropped")
            => (lastSet = None /\ outcome'.status = "panicked")]_vars

C5_Witness ==
    /\ Len(sent) = 2
    /\ sent[1].body.network = "MainNet"
    /\ sent[2].body.network = "TestNet"
    /\ outcome.op = "set_network"
    /\ lastSet = None

\* C6: a Connection method that returns has issued exactly one transport
\* call, to the path the table gives it; no call issues more than one.
C6_OnePostToCommandPath ==
    /\ outcome.op \in ConnectionOps => Len(outcome.posts) <= 1
    /\ (outcome.op \in ConnectionOps /\ outcome.status = "returned")
        => /\ Len(outcome.posts) = 1
           /\ outcome.posts[1].path = CommandName(outcome.op)

C6_Witness ==
    /\ outcome.op = "identity_proof"
    /\ outcome.status = "returned"
    /\ outcome.posts[1].path = "identity"
    /\ Len(sent) = 2

\* C7: when the transport reports an error for the call, the method returns
\* exactly that error after its single transport call.
C7_TransportErrorPropagated ==
    (outcome.op \in ConnectionOps /\ outcome.reply.tag = "Err")
    => /\ outcome.status = "returned"
       /\ outcome.result = outcome.reply
       /\ Len(outcome.posts) = 1

C7_Witness ==
    /\ outcome.op = "transfer_parameters"
    /\ outcome.status = "returned"
    /\ outcome.result = Err(Tagged("reqwest::Error", "connect"))

\* C8: when the transport succeeds with a response that embeds an
\* application-level error, the method returns transport success wrapping
\* that error unchanged.
C8_ApplicationErrorPassedThrough ==
    (outcome.op \in ResultOps /\ outcome.reply.tag = "Ok"
        /\ outcome.reply.value.tag = "Err")
    => /\ outcome.status = "returned"
       /\ outcome.result.tag = "Ok"
       /\ outcome.result.value = outcome.reply.value

C8_Witness ==
    /\ outcome.op = "sign_with_transaction_data"
    /\ outcome.status = "returned"
    /\ outcome.result = Ok(Err("SignError"))

\* C9: new on a well-formed address yields a client with no selector; on a
\* malformed one it returns an error and yields no client; neither issues a
\* transport call, and without a client there is none.
C9_NewYieldsNoSelector ==
    /\ client = NoClient => (sent = <<>> /\ future = NoFuture)
    /\ outcome.op = "new"
        => /\ sent = <<>>
           /\ IF outcome.request.url \in WellFormedUrls
              THEN /\ outcome.result.tag = "Ok"
                   /\ client.tag = "Client"
                   /\ client.network = None
                   /\ client.base.server_url = outcome.request.url
              ELSE /\ outcome.result.tag = "Err"
                   /\ client = NoClient

C9_Witness ==
    /\ outcome.op = "new"
    /\ outcome.result.tag = "Ok"
    /\ client.tag = "Client"

\* C10: once built, the client keeps its base address; its selector changes
\* only in a set_network step, to that step's argument, so it always is the
\* argument of the most recent set_network, whatever the calls in between
\* returned and whether they were dropped.
C10_OnlySetNetworkChangesClient ==
    /\ [](client.tag = "Client" => client.network = lastSet)
    /\ [][client.tag = "Client"
            => /\ client'.tag = "Client"
               /\ client'.base = client.base
               /\ client'.network # client.network
                    => /\ outcome'.op = "set_network"
                       /\ outcome'.selector = client'.network]_vars

C10_Witness ==
    /\ outcome.status = "dropped"
    /\ Len(outcome.posts) = 1
    /\ client.network = "TestNet"
    /\ Len(sent) = 2

====
